---- MODULE Spec2Model ----
(***************************************************************************)
(* Recipe board: the Flask service of app.py (GET / and POST / on one      *)
(* route over the table recipes) and the one-shot seed script db_init.py.  *)
(*                                                                         *)
(* A text is a sequence of one-character strings, so that strip(), len()   *)
(* and int() are computed on it as Python computes them.  An integer       *)
(* parsed from text is kept as sign and decimal digits, because Python's   *)
(* int is unbounded while the store's INTEGER column is 32 bits wide.      *)
(***************************************************************************)
EXTENDS Integers, Sequences, FiniteSets, TLC

(* ------------------------------ bounds -------------------------------- *)
MaxRows == 2        \* rows the service may insert before the model stops inserting
MaxClock == 2       \* distinct values of the store's now()
MaxSeedRuns == 2    \* runs of db_init.py that insert

(* ----------------------------- constants ------------------------------ *)
MaxTitleLen == 200

\* Python's None: a value no text is equal to.
None == <<"<None>">>

\* The name db_init.py looks up in os.environ (its line 5 passes the
\* connection URL itself as the variable's name); credentials elided.
SeedEnvName == "postgresql://<user>:<password>@<host>/recipes_db_9h5d"

EnvNames == {"DATABASE_URL", SeedEnvName}

\* The messages of index(), by what they say.
ErrTitleRequired == "title is required"
ErrTitleTooLong == "title must be at most 200 characters"
ErrMinutesRequired == "duration is required"
ErrMinutesNotInt == "duration must be an integer"
ErrMinutesBelowOne == "duration must be an integer of 1 or more"
ErrDbNotConfigured == "cannot save: database is not configured"
ErrSaveFailed == "an error occurred while saving"

(* ------------------------------- texts -------------------------------- *)
Rep(c, n) == [i \in 1..n |-> c]

IsSpace(c) == c \in {" ", "\n", "\t"}

IsDigit(c) == c \in {"0", "1", "2", "3", "4", "5", "6", "7", "8", "9"}

SetMin(S) == CHOOSE m \in S : \A k \in S : m <= k

\* str.strip(): leading and trailing whitespace removed, the inside kept.
StripText(s) ==
    IF \A i \in 1..Len(s) : IsSpace(s[i]) THEN <<>>
    ELSE LET first == CHOOSE i \in 1..Len(s) :
                        ~IsSpace(s[i]) /\ \A j \in 1..(i - 1) : IsSpace(s[j])
             fromEnd == CHOOSE k \in 1..Len(s) :
                        /\ ~IsSpace(s[Len(s) + 1 - k])
                        /\ \A j \in 1..(k - 1) : IsSpace(s[Len(s) + 1 - j])
         IN  SubSeq(s, first, Len(s) + 1 - fromEnd)

\* request.form.get(name) or "": an absent field reads as the empty text.
FormGet(v) == IF v = None THEN <<>> ELSE v

(* ------------------------------- int() -------------------------------- *)
DigitVal(c) ==
    CASE c = "0" -> 0 [] c = "1" -> 1 [] c = "2" -> 2 [] c = "3" -> 3
      [] c = "4" -> 4 [] c = "5" -> 5 [] c = "6" -> 6 [] c = "7" -> 7
      [] c = "8" -> 8 [] c = "9" -> 9

\* The digits of a numeral without its leading zeros (at least one is kept).
DropLeadingZeros(ds) ==
    LET nz == {i \in 1..Len(ds) : ds[i] # 0}
    IN  IF nz = {} THEN <<0>> ELSE SubSeq(ds, SetMin(nz), Len(ds))

\* The value int() raises ValueError for.
NotAnInt == [ok |-> FALSE, neg |-> FALSE, digits |-> <<>>]

\* int(s) in base 10: surrounding whitespace, an optional sign, then digits
\* with single underscores allowed between digits.
ParseInt(s0) ==
    LET s == StripText(s0)
        signed == Len(s) > 0 /\ s[1] \in {"+", "-"}
        body == IF signed THEN SubSeq(s, 2, Len(s)) ELSE s
        wellFormed ==
            /\ Len(body) > 0
            /\ IsDigit(body[1])
            /\ IsDigit(body[Len(body)])
            /\ \A i \in 1..Len(body) : IsDigit(body[i]) \/ body[i] = "_"
            /\ \A i \in 1..(Len(body) - 1) : ~(body[i] = "_" /\ body[i + 1] = "_")
        digitAt == {i \in 1..Len(body) : IsDigit(body[i])}
        nth(k) == CHOOSE i \in digitAt : Cardinality({j \in digitAt : j <= i}) = k
        ds == [k \in 1..Cardinality(digitAt) |-> DigitVal(body[nth(k)])]
        norm == DropLeadingZeros(ds)
    IN  IF ~wellFormed THEN NotAnInt
        ELSE [ok |-> TRUE,
              neg |-> (signed /\ s[1] = "-" /\ norm # <<0>>),
              digits |-> norm]

\* a < b for two digit sequences without leading zeros.
DigitsLess(a, b) ==
    \/ Len(a) < Len(b)
    \/ /\ Len(a) = Len(b)
       /\ \E i \in 1..Len(a) :
            /\ a[i] < b[i]
            /\ \A j \in 1..(i - 1) : a[j] = b[j]

\* v < 1, for a parsed integer v.
IntBelowOne(v) == v.neg \/ v.digits = <<0>>

\* Decimal text of a parsed integer, as str() writes it.
DigitChar(d) ==
    CASE d = 0 -> "0" [] d = 1 -> "1" [] d = 2 -> "2" [] d = 3 -> "3"
      [] d = 4 -> "4" [] d = 5 -> "5" [] d = 6 -> "6" [] d = 7 -> "7"
      [] d = 8 -> "8" [] d = 9 -> "9"

IntToText(v) ==
    (IF v.neg THEN <<"-">> ELSE <<>>) \o [i \in 1..Len(v.digits) |-> DigitChar(v.digits[i])]

(* ----------------------------- the store ------------------------------- *)
\* The largest value of the store's INTEGER column, 2^31 - 1, and the
\* magnitude of its smallest, 2^31, as decimal digits.
IntegerMaxDigits == <<2, 1, 4, 7, 4, 8, 3, 6, 4, 7>>

IntegerMinDigits == <<2, 1, 4, 7, 4, 8, 3, 6, 4, 8>>

\* Whether a parsed integer fits the column minutes (Integer).
FitsInteger(v) ==
    IF v.neg THEN ~DigitsLess(IntegerMinDigits, v.digits)
    ELSE ~DigitsLess(IntegerMaxDigits, v.digits)

\* Recipe(title=..., minutes=..., description=description or None)
NewRecipe(title, minutes_val, description) ==
    [title |-> title,
     minutes |-> minutes_val,
     description |-> IF description = <<>> THEN None ELSE description]

\* Whether the store executes INSERT INTO recipes (title, minutes,
\* description) for item: the table must have the columns of Recipe, and
\* the row must pass String(200), Integer, NOT NULL and the CHECK.
InsertAccepted(shape, item) ==
    /\ shape = "service"
    /\ item.title # None
    /\ Len(item.title) <= MaxTitleLen
    /\ item.minutes.ok
    /\ FitsInteger(item.minutes)
    /\ ~IntBelowOne(item.minutes)

\* The row the store makes of item: id from the sequence, created_at = now().
StoredRow(item, id, now) ==
    [id |-> id, title |-> item.title, minutes |-> item.minutes,
     description |-> item.description, created_at |-> now]

\* r comes before q under ORDER BY created_at DESC, id DESC.
ListedBeforeAscendingId(r, q) ==
    \/ r.created_at > q.created_at
    \/ r.created_at = q.created_at /\ r.id < q.id

ListedBefore(r, q) ==
    \/ r.created_at > q.created_at
    \/ r.created_at = q.created_at /\ r.id > q.id

\* session.query(Recipe).order_by(created_at.desc(), id.desc()).all()
RECURSIVE OrderBy(_)
OrderBy(S) ==
    IF S = {} THEN <<>>
    ELSE LET first == CHOOSE r \in S : \A q \in S \ {r} : ListedBefore(r, q)
         IN  <<first>> \o OrderBy(S \ {first})

\* A store that answers the list query from any table named recipes.
SelectAcceptedAnyShape(sh) == sh # "absent"

\* Whether SELECT id, title, minutes, description, created_at FROM recipes
\* executes: the table must exist with these columns.
SelectAccepted(sh) == sh = "service"

(* ----------------------------- validation ----------------------------- *)
TitleErrorsNoRequired(title) ==
    IF Len(title) > MaxTitleLen THEN <<ErrTitleTooLong>> ELSE <<>>

TitleErrors(title) ==
    (IF title = <<>> THEN <<ErrTitleRequired>> ELSE <<>>)
    \o (IF Len(title) > MaxTitleLen THEN <<ErrTitleTooLong>> ELSE <<>>)

\* minutes_val: None when the text is empty or int() raised, else int(text)
\* (it is assigned before the test against 1).
MinutesVal(minutes_raw) ==
    IF minutes_raw = <<>> THEN NotAnInt ELSE ParseInt(minutes_raw)

MinutesErrors(minutes_raw) ==
    IF minutes_raw = <<>> THEN <<ErrMinutesRequired>>
    ELSE IF ~ParseInt(minutes_raw).ok THEN <<ErrMinutesNotInt>>
    ELSE IF IntBelowOne(ParseInt(minutes_raw)) THEN <<ErrMinutesBelowOne>>
    ELSE <<>>

\* A handler without the check of line 222.
DbErrorsNone(eng) == <<>>

DbErrors(eng) == IF ~eng THEN <<ErrDbNotConfigured>> ELSE <<>>

\* A handler that stops at the first failing rule.
ValidationErrorsFirstOnly(title, minutes_raw, eng) ==
    LET all == TitleErrors(title) \o MinutesErrors(minutes_raw) \o DbErrors(eng)
    IN  IF all = <<>> THEN <<>> ELSE <<all[1]>>

\* The error list of index() before the save is tried.
ValidationErrors(title, minutes_raw, eng) ==
    TitleErrors(title) \o MinutesErrors(minutes_raw) \o DbErrors(eng)

\* if not errors and engine is not None and minutes_val is not None
SaveAttempted(errors, eng, minutes_val) ==
    errors = <<>> /\ eng /\ minutes_val.ok

EmptyForm == [title |-> <<>>, minutes |-> <<>>, description |-> <<>>]

\* A handler that echoes the parsed minutes instead of the text.
FormValuesCoerced(title, minutes_raw, description) ==
    [title |-> title,
     minutes |-> IF ParseInt(minutes_raw).ok THEN IntToText(ParseInt(minutes_raw))
                 ELSE minutes_raw,
     description |-> description]

\* form_values after the three assignments of the POST branch.
FormValues(title, minutes_raw, description) ==
    [title |-> title, minutes |-> minutes_raw, description |-> description]

(* ------------------------------ responses ----------------------------- *)
NoRequest == [method |-> "none", title |-> None, minutes |-> None, description |-> None]

NoResponse ==
    [kind |-> "none", status |-> 0, errors |-> <<>>, recipes |-> <<>>,
     form_values |-> EmptyForm, db_ready |-> FALSE]

\* redirect(url_for("index"))
Redirect ==
    [kind |-> "redirect", status |-> 302, errors |-> <<>>, recipes |-> <<>>,
     form_values |-> EmptyForm, db_ready |-> FALSE]

\* render_template_string(PAGE_TEMPLATE, ...)
Page(errors, recipes, eng, form_values) ==
    [kind |-> "page", status |-> 200, errors |-> errors, recipes |-> recipes,
     form_values |-> form_values, db_ready |-> eng]

\* The notice of the template: {% if not db_ready %}.
NoticeShown(r) == r.kind = "page" /\ ~r.db_ready

(* -------------------------------- state ------------------------------- *)
VARIABLES
    environ,     \* the names set in os.environ of the service's process
    phase,       \* the service process: "stopped", "crashed" or "serving"
    engine,      \* app.engine is not None
    shape,       \* table recipes: "absent", "service" (Recipe) or "seed" (schema_sql)
    rows,        \* the rows of table recipes
    nextId,      \* the next value of the id sequence
    clock,       \* the last value now() returned
    req,         \* the last request served
    resp,        \* its response
    storeOps,    \* the statements that request sent to the store, in order
    seedResult   \* how the last run of db_init.py ended: "none", "error" or "ok"

vars == <<environ, phase, engine, shape, rows, nextId, clock, req, resp,
          storeOps, seedResult>>

db == <<shape, rows, nextId, clock>>

\* The form fields submitted in the checked runs (None: the field is absent).
TitleInputs ==
    {<<" ", " ">>,
     <<" ">> \o Rep("a", MaxTitleLen) \o <<"\n">>,
     Rep("a", MaxTitleLen + 1)}

MinutesInputs ==
    {None,
     <<"x">>,
     <<"0">>,
     <<" ", "+", "2">>,
     <<"2", "1", "4", "7", "4", "8", "3", "6", "4", "8">>}

DescriptionInputs ==
    {None,
     <<" ", "a", "\n", "b", " ">>}

\* now() never runs backwards; it may or may not have advanced.
NowValues == {t \in {clock, clock + 1} : t <= MaxClock}

\* Before either program has run: the database holds no table recipes, and
\* the service's environment sets DATABASE_URL or does not.
Init ==
    /\ environ \in SUBSET {"DATABASE_URL"}
    /\ phase = "stopped"
    /\ engine = FALSE
    /\ shape = "absent"
    /\ rows = {}
    /\ nextId = 1
    /\ clock = 1
    /\ req = NoRequest
    /\ resp = NoResponse
    /\ storeOps = <<>>
    /\ seedResult = "none"

(* ------------------------------ app.py -------------------------------- *)
\* Import of app.py: get_database_url(), create_engine, and
\* Base.metadata.create_all(engine), which creates recipes only if no
\* table of that name exists.  An error of create_all is not caught.
Startup ==
    /\ phase # "serving"
    /\ \E up \in BOOLEAN :
        IF "DATABASE_URL" \notin environ
        THEN /\ engine' = FALSE
             /\ phase' = "serving"
             /\ UNCHANGED shape
        ELSE IF up
        THEN /\ engine' = TRUE
             /\ phase' = "serving"
             /\ shape' = IF shape = "absent" THEN "service" ELSE shape
        ELSE /\ engine' = TRUE
             /\ phase' = "crashed"
             /\ UNCHANGED shape
    /\ UNCHANGED <<environ, rows, nextId, clock, req, resp, storeOps, seedResult>>

\* Whether the store answers a statement: either, when there is an engine
\* to send one through.
Reachable(eng) == IF eng THEN BOOLEAN ELSE {FALSE}

\* The list query of index(): no statement without an engine, an empty
\* list when the statement raises.
ListOps(eng, up, sh) ==
    IF eng THEN << [op |-> "select", up |-> up, ok |-> up /\ SelectAccepted(sh)] >>
    ELSE <<>>

ListRecipes(eng, up, sh, table) ==
    IF eng /\ up /\ SelectAccepted(sh) THEN OrderBy(table) ELSE <<>>

\* The tail of index(): the list query, then the page.
Render(errors, form_values, opsSoFar) ==
    \E up \in Reachable(engine) :
        /\ storeOps' = opsSoFar \o ListOps(engine, up, shape)
        /\ resp' = Page(errors, ListRecipes(engine, up, shape, rows), engine, form_values)

GetRequest == [method |-> "GET", title |-> None, minutes |-> None, description |-> None]

\* A GET whose failed list query leaves the table recreated empty.
GetResetsOnError ==
    /\ phase = "serving"
    /\ req' = GetRequest
    /\ Render(<<>>, EmptyForm, <<>>)
    /\ rows' = IF engine /\ ~storeOps'[1].ok THEN {} ELSE rows
    /\ UNCHANGED <<environ, phase, engine, shape, nextId, clock, seedResult>>

\* index() for GET /.
Get ==
    /\ phase = "serving"
    /\ req' = GetRequest
    /\ Render(<<>>, EmptyForm, <<>>)
    /\ UNCHANGED <<environ, phase, engine, db, seedResult>>

\* A save whose handler also shows the cause (line 238, commented out).
SaveShowsCause(item, errors, form_values) ==
    \E up \in Reachable(engine) :
        IF up /\ InsertAccepted(shape, item)
        THEN /\ Cardinality(rows) < MaxRows
             /\ \E now \in NowValues :
                    /\ rows' = rows \cup {StoredRow(item, nextId, now)}
                    /\ clock' = now
             /\ nextId' = nextId + 1
             /\ storeOps' = << [op |-> "insert", up |-> up, ok |-> TRUE] >>
             /\ resp' = Redirect
        ELSE /\ UNCHANGED <<rows, nextId, clock>>
             /\ Render(errors \o <<ErrSaveFailed, "cause">>, form_values,
                       << [op |-> "insert", up |-> up, ok |-> FALSE] >>)

\* The save of index(): one INSERT in its own session, committed.  When it
\* raises, the generic message is appended and the page is rendered.
Save(item, errors, form_values) ==
    \E up \in Reachable(engine) :
        IF up /\ InsertAccepted(shape, item)
        THEN /\ Cardinality(rows) < MaxRows
             /\ \E now \in NowValues :
                    /\ rows' = rows \cup {StoredRow(item, nextId, now)}
                    /\ clock' = now
             /\ nextId' = nextId + 1
             /\ storeOps' = << [op |-> "insert", up |-> up, ok |-> TRUE] >>
             /\ resp' = Redirect
        ELSE /\ UNCHANGED <<rows, nextId, clock>>
             /\ Render(errors \o <<ErrSaveFailed>>, form_values,
                       << [op |-> "insert", up |-> up, ok |-> FALSE] >>)

\* index() for POST / with the fields t, m, d.
PostWith(t, m, d) ==
    LET title == StripText(FormGet(t))
        minutes_raw == StripText(FormGet(m))
        description == StripText(FormGet(d))
        form_values == FormValues(title, minutes_raw, description)
        minutes_val == MinutesVal(minutes_raw)
        errors == ValidationErrors(title, minutes_raw, engine)
    IN  /\ req' = [method |-> "POST", title |-> t, minutes |-> m, description |-> d]
        /\ IF SaveAttempted(errors, engine, minutes_val)
           THEN Save(NewRecipe(title, minutes_val, description), errors, form_values)
           ELSE /\ UNCHANGED <<rows, nextId, clock>>
                /\ Render(errors, form_values, <<>>)

Post ==
    /\ phase = "serving"
    /\ \E t \in TitleInputs, m \in MinutesInputs, d \in DescriptionInputs :
            PostWith(t, m, d)
    /\ UNCHANGED <<environ, phase, engine, shape, seedResult>>

(* ----------------------------- db_init.py ----------------------------- *)
\* The rows of seed_sql: (t1, b1), (t2, b2).
SeedSamples ==
    <<[title |-> "tamagoyaki", body |-> "mix eggs, sugar and salt and fry"],
      [title |-> "misoshiru", body |-> "dashi, miso, tofu, wakame"]>>

SeedRow(k, id, now) ==
    [id |-> id, title |-> SeedSamples[k].title, body |-> SeedSamples[k].body,
     created_at |-> now]

\* Whether a row of seed_sql conflicts with the table.  The only unique
\* constraint of schema_sql is the primary key id, and the new rows take
\* fresh ids: ON CONFLICT DO NOTHING skips nothing.
SeedConflicts(table, k) == FALSE

\* One run of db_init.py in a process whose os.environ sets the names env.
\* It reads os.environ under the name SeedEnvName and raises RuntimeError
\* when that is unset.  Otherwise, in one transaction: CREATE TABLE IF NOT
\* EXISTS recipes (id, title, body, created_at), then the INSERT of the
\* two samples, which raises on a table without the column body.
Seed ==
    /\ \E env \in SUBSET EnvNames, up \in BOOLEAN :
        IF SeedEnvName \in env /\ up /\ shape # "service"
        THEN LET fresh == {k \in 1..Len(SeedSamples) : ~SeedConflicts(rows, k)}
                 idOf(k) == nextId + Cardinality({j \in fresh : j < k})
             IN  /\ Cardinality(rows) < MaxSeedRuns * Len(SeedSamples)
                 /\ seedResult' = "ok"
                 /\ shape' = "seed"
                 /\ \E now \in NowValues :
                        /\ rows' = rows \cup {SeedRow(k, idOf(k), now) : k \in fresh}
                        /\ clock' = now
                 /\ nextId' = nextId + Cardinality(fresh)
        ELSE /\ seedResult' = "error"
             /\ UNCHANGED db
    /\ UNCHANGED <<environ, phase, engine, req, resp, storeOps>>

Next == Startup \/ Get \/ Post \/ Seed

Spec == Init /\ [][Next]_vars

(* ------------------------------- claims ------------------------------- *)
InSeq(e, sq) == \E i \in 1..Len(sq) : sq[i] = e

SeqSet(sq) == {sq[i] : i \in 1..Len(sq)}

\* The fields of the last request after trimming.
ReqTitle == StripText(FormGet(req.title))

ReqMinutes == StripText(FormGet(req.minutes))

ReqDescription == StripText(FormGet(req.description))

\* The field rules of the last request all pass.
FieldsValid ==
    /\ ReqTitle # <<>>
    /\ Len(ReqTitle) <= MaxTitleLen
    /\ ParseInt(ReqMinutes).ok
    /\ ~IntBelowOne(ParseInt(ReqMinutes))

\* The last request sent an INSERT and the store raised.
InsertFailed ==
    /\ req.method = "POST"
    /\ storeOps # <<>>
    /\ storeOps[1].op = "insert"
    /\ ~storeOps[1].ok

\* The last request's list query was executed by the store.
ListFetched ==
    /\ storeOps # <<>>
    /\ storeOps[Len(storeOps)].op = "select"
    /\ storeOps[Len(storeOps)].ok

\* This step served a request whose record differs from the last one's.
Served(method) ==
    /\ req'.method = method
    /\ <<req, resp, storeOps>>' # <<req, resp, storeOps>>

\* C1: a POST to a service whose store is configured, reachable and holds
\* the service's table, with a trimmed title of 1 to 200 characters and
\* minutes that parse to an integer >= 1, is answered by a redirect and has
\* stored one row with the trimmed title, the parsed minutes and the trimmed
\* description (NULL when empty).
C1_ValidPostInserts ==
    ( /\ req.method = "POST"
      /\ engine
      /\ shape = "service"
      /\ FieldsValid
      /\ \A i \in 1..Len(storeOps) : storeOps[i].up )
    => /\ resp = Redirect
       /\ \E r \in rows :
            /\ r.id = nextId - 1
            /\ r.title = ReqTitle
            /\ r.minutes = ParseInt(ReqMinutes)
            /\ r.description = (IF ReqDescription = <<>> THEN None ELSE ReqDescription)

\* The messages of the six rules, and whether the rule of message e fails
\* for the last request.
RuleMessages ==
    {ErrTitleRequired, ErrTitleTooLong, ErrMinutesRequired, ErrMinutesNotInt,
     ErrMinutesBelowOne, ErrDbNotConfigured}

RuleFails(e) ==
    \/ e = ErrTitleRequired /\ ReqTitle = <<>>
    \/ e = ErrTitleTooLong /\ Len(ReqTitle) > MaxTitleLen
    \/ e = ErrMinutesRequired /\ ReqMinutes = <<>>
    \/ e = ErrMinutesNotInt /\ ReqMinutes # <<>> /\ ~ParseInt(ReqMinutes).ok
    \/ e = ErrMinutesBelowOne /\ ParseInt(ReqMinutes).ok /\ IntBelowOne(ParseInt(ReqMinutes))
    \/ e = ErrDbNotConfigured /\ ~engine

\* C2: after every POST the error list holds the message of every failing
\* rule, and when any rule fails the response is the page with status 200
\* and no INSERT was sent.
C2_AllErrorsCollected ==
    req.method = "POST" =>
        LET failing == {e \in RuleMessages : RuleFails(e)}
        IN  /\ failing \subseteq SeqSet(resp.errors)
            /\ failing # {} =>
                /\ resp.kind = "page"
                /\ resp.status = 200
                /\ \A i \in 1..Len(storeOps) : storeOps[i].op # "insert"

\* C2 witness: a POST failing three rules at once, answered with all three.
C2_Witness ==
    /\ req.method = "POST"
    /\ ReqTitle = <<>>
    /\ ReqMinutes = <<>>
    /\ ~engine
    /\ Len(resp.errors) = 3

\* Every row of the service's table has minutes >= 1 and a title of 1 to
\* 200 characters, and no two rows share an id.
RowsValid ==
    shape = "service" =>
        /\ \A r \in rows :
            /\ r.minutes.ok
            /\ ~IntBelowOne(r.minutes)
            /\ Len(r.title) >= 1
            /\ Len(r.title) <= MaxTitleLen
        /\ \A r, q \in rows : r.id = q.id => r = q

\* C3: the rows of the service's table are always valid, and the table is
\* append-only: every step keeps every stored row as it is.
C3_ValidAndAppendOnly == [](RowsValid) /\ [][rows \subseteq rows']_vars

\* C3 witness: a full table, and a rejected POST served after it.
C3_Witness ==
    /\ shape = "service"
    /\ Cardinality(rows) >= 2
    /\ req.method = "POST"
    /\ resp.kind = "page"
    /\ resp.errors # <<>>

\* C4 as stated: every rendered list holds all stored recipes (here for a
\* service with an engine over its own table).
C4_EveryListComplete ==
    (resp.kind = "page" /\ engine /\ shape = "service")
    => SeqSet(resp.recipes) = rows

\* C4 amended: a rendered list whose query the store executed holds every
\* stored row once, ordered by created_at descending then id descending,
\* and so a later insert before an earlier one.
C4_FetchedListOrdered ==
    (resp.kind = "page" /\ ListFetched) =>
        /\ SeqSet(resp.recipes) = rows
        /\ Len(resp.recipes) = Cardinality(rows)
        /\ \A i, j \in 1..Len(resp.recipes) :
            i < j =>
                /\ \/ resp.recipes[i].created_at > resp.recipes[j].created_at
                   \/ /\ resp.recipes[i].created_at = resp.recipes[j].created_at
                      /\ resp.recipes[i].id > resp.recipes[j].id
                /\ resp.recipes[i].id > resp.recipes[j].id

\* C4 witness: a fetched list of two rows with the same created_at.
C4_Witness ==
    /\ resp.kind = "page"
    /\ ListFetched
    /\ Len(resp.recipes) = 2
    /\ resp.recipes[1].created_at = resp.recipes[2].created_at

\* C5: without an engine every request is answered by the page with status
\* 200, no recipes and the notice, sends no statement to the store, and a
\* POST carries the "database not configured" error.
C5_NoEngine ==
    (phase = "serving" /\ ~engine /\ req.method # "none") =>
        /\ resp.kind = "page"
        /\ resp.status = 200
        /\ resp.recipes = <<>>
        /\ NoticeShown(resp)
        /\ storeOps = <<>>
        /\ req.method = "POST" => InSeq(ErrDbNotConfigured, resp.errors)
        /\ req.method = "GET" => resp.errors = <<>>

\* C5 witness: a POST with valid fields to a service without an engine.
C5_Witness ==
    /\ phase = "serving"
    /\ ~engine
    /\ req.method = "POST"
    /\ FieldsValid
    /\ resp.errors = <<ErrDbNotConfigured>>

\* What a POST whose INSERT raised is answered with.
SaveFailureAnswered ==
    InsertFailed =>
        /\ FieldsValid
        /\ resp.kind = "page"
        /\ resp.status = 200
        /\ resp.errors = <<ErrSaveFailed>>
        /\ resp.form_values = [title |-> ReqTitle,
                                minutes |-> ReqMinutes,
                                description |-> ReqDescription]
        /\ ListFetched => SeqSet(resp.recipes) = rows

C7_GetKeepsStore == [][Served("GET") => UNCHANGED <<shape, rows, nextId, clock>>]_vars

\* C7 witness: a GET whose list query raised, over a table with rows.
C7_Witness ==
    /\ req.method = "GET"
    /\ shape = "service"
    /\ rows # {}
    /\ storeOps # <<>>
    /\ ~storeOps[1].ok

\* C8: once the seed script has created its table, the table holds each
\* of the two sample rows exactly once, however often the script ran.
C8_SeedOnce ==
    shape = "seed" =>
        \A k \in 1..Len(SeedSamples) :
            Cardinality({r \in rows : /\ r.title = SeedSamples[k].title
                                      /\ r.body = SeedSamples[k].body}) = 1

\* C9 as stated: a re-rendered POST echoes the three fields as submitted.
C9_EchoAsSubmitted ==
    (req.method = "POST" /\ resp.kind = "page") =>
        resp.form_values = [title |-> FormGet(req.title),
                            minutes |-> FormGet(req.minutes),
                            description |-> FormGet(req.description)]

\* C9 amended: a re-rendered POST echoes the three fields with leading and
\* trailing whitespace removed, minutes as that text and not as the parsed
\* number; a GET renders the three fields empty.
C9_EchoTrimmed ==
    /\ (req.method = "POST" /\ resp.kind = "page") =>
            resp.form_values = [title |-> ReqTitle,
                                minutes |-> ReqMinutes,
                                description |-> ReqDescription]
    /\ req.method = "GET" => resp.form_values = EmptyForm

\* C9 witness: a rejected POST whose minutes text is not the decimal form
\* of the number it parses to.
C9_Witness ==
    /\ req.method = "POST"
    /\ resp.kind = "page"
    /\ ParseInt(ReqMinutes).ok
    /\ IntToText(ParseInt(ReqMinutes)) # ReqMinutes
    /\ resp.form_values.minutes = ReqMinutes

\* What a service over the seed script's table answers.
SeedShapeAnswered ==
    (phase = "serving" /\ engine /\ shape = "seed") =>
        /\ req.method = "GET" =>
            /\ resp.kind = "page"
            /\ resp.status = 200
            /\ resp.recipes = <<>>
        /\ (req.method = "POST" /\ FieldsValid) =>
            /\ resp.kind = "page"
            /\ resp.errors = <<ErrSaveFailed>>

\* C10: a table recipes, once it exists, keeps its shape; over the seed
\* script's table every GET renders an empty list with status 200, every
\* POST with valid fields ends with the generic message, and no request
\* adds a row.
C10_ShapeNotReconciled ==
    /\ [][shape # "absent" => shape' = shape]_vars
    /\ [](SeedShapeAnswered)
    /\ [][(shape = "seed" /\ (Served("GET") \/ Served("POST"))) => rows' = rows]_vars

\* C10 witness: a POST with valid fields refused over the seed script's table.
C10_Witness ==
    /\ phase = "serving"
    /\ engine
    /\ shape = "seed"
    /\ req.method = "POST"
    /\ FieldsValid
    /\ resp.errors = <<ErrSaveFailed>>

====
